---- MODULE Spec2Model ----
(***************************************************************************)
(* meta-compactor: a directory tree is indexed into an in-memory tree,     *)
(* duplicate files are replaced by FileLink nodes (prune_children), the    *)
(* links are projected onto the disk as marker stubs (apply_changes) and   *)
(* reversed again (restore).                                               *)
(*                                                                         *)
(* Every method of the program is modelled as a function from "world" to   *)
(* "world", where a world is the record                                    *)
(*   [children, checksum_values, disk, written, fault]                     *)
(* of everything a method can read or write: the child lists of the        *)
(* Directory nodes, the dictionary bound to the default argument of        *)
(* prune_children, the files on disk, the paths the call has removed or    *)
(* opened for writing, and the exception (if any) that ended the call.     *)
(***************************************************************************)
EXTENDS Integers, Sequences, FiniteSets, TLC

VARIABLES
  dirname,          \* the original directory (path -> bytes), never written
  tgtdir,           \* the copy the program works on (path -> bytes)
  special,          \* its entries that are no regular files (path -> kind)
  children,         \* Directory.children of every Directory node, by path
  checksum_values,  \* the dict object of prune_children's default argument
  written,          \* the paths removed or opened for writing by the last call
  fault,            \* the exception that ended the process, or NoFault
  lastOp,           \* the last call made on the tree
  prevOp,           \* the call made before it
  nPrune,           \* number of top-level prune_children calls so far
  pc                \* where the running call stands (Idle between calls)

vars == <<dirname, tgtdir, special, children, checksum_values, written, fault, lastOp,
          prevOp, nPrune, pc>>

----------------------------------------------------------------------------
(* Bounds of the model *)

\* number of files in the indexed directory tree
MaxFiles == 3
\* number of top-level prune_children calls in one process
MaxPrune == 2

(* Program constants, scaled down so that files of a few bytes span        *)
(* several blocks: the program reads 4096 bytes at a time and its marker   *)
(* is the 30 bytes b'METACOMPACTOR-REPLACEMENT-FILE'.                      *)
BlockSize == 2
SIGNATURE == <<1, 2>>

\* the directories of the tree on disk, in pre-order
Root == <<"testdir_copy">>
DirList == << Root, Root \o <<"a">>, Root \o <<"a", "a">>, Root \o <<"b">> >>
Dirs == {DirList[i] : i \in DOMAIN DirList}
DirNames == <<"a", "b">>

\* names and contents a file of the tree can have
FileNames == <<"f1.bin", "f2.bin", "f3.bin", "f4.bin", "f5.bin">>
\* the name an entry that is no regular file and no directory can have
SpecialNames == <<"s">>
Data == { <<>>, <<5, 6, 7>>, SIGNATURE \o <<5>> }

NoFault == "none"
NoChecksum == <<>>
NoPath == <<>>
NoTree == <<>>

\* no call is running: no FileLink is left to do (todo), nothing was copied
\* (pos); result is the disk the running call is to return with, at the
\* statement the process was terminated at, and gone the paths that were absent
\* from the disk at some moment of a call
Idle == [phase |-> "idle", todo |-> <<>>, pos |-> 0, result |-> <<>>,
         at |-> "idle", gone |-> {}]

----------------------------------------------------------------------------
(* Sequences *)

RECURSIVE Reverse(_)
Reverse(s) == IF s = <<>> THEN <<>> ELSE Append(Reverse(Tail(s)), Head(s))

Min(a, b) == IF a < b THEN a ELSE b

\* f.read(n) at offset pos of a file holding bytes
Read(bytes, pos, n) == SubSeq(bytes, pos + 1, Min(Len(bytes), pos + n))

----------------------------------------------------------------------------
(* The filesystem calls *)

\* os.remove with a slip: the file is left where it is
os_remove_nothing(disk, path) == disk

\* os.remove(path)
os_remove(disk, path) == [q \in DOMAIN disk \ {path} |-> disk[q]]

\* open(path, "wb"): the file is created or truncated
open_wb(disk, path) == [q \in DOMAIN disk \cup {path} |-> IF q = path THEN <<>> ELSE disk[q]]

\* f.write(data) on a file opened for writing
write(disk, path, data) == [disk EXCEPT ![path] = @ \o data]

----------------------------------------------------------------------------
(* Pathable *)

\* Pathable.path: the parent's path joined with the own name
Pathable_path(parent, name) == Append(parent, name)

\* the index of the child called name in a child list (0 if there is none)
IndexOf(kids, name) ==
  IF \E i \in DOMAIN kids : kids[i].name = name
    THEN CHOOSE i \in DOMAIN kids : kids[i].name = name
    ELSE 0

\* the three node classes; a Directory node's children are kept by its path
File(name) ==
  [type |-> "file", name |-> name, checksum |-> NoChecksum, replacement |-> NoPath]
Directory(name) ==
  [type |-> "directory", name |-> name, checksum |-> NoChecksum, replacement |-> NoPath]

\* FileLink.__init__ with a slip: the Link is named after the replacement
FileLink_named_after_replacement(original, replacement) ==
  [type |-> "file link", name |-> replacement.path[Len(replacement.path)],
   checksum |-> original.checksum, replacement |-> replacement.path]

\* FileLink.__init__: the name (and parent) of the original, the path of the
\* replacement and the checksum of the original
FileLink(original, replacement) ==
  [type |-> "file link", name |-> original.name,
   checksum |-> original.checksum, replacement |-> replacement.path]

\* the assertion of FileLink.__init__
FileLink_assert(original, replacement) == original.checksum = replacement.checksum

----------------------------------------------------------------------------
(* File.checksum *)

\* the read loop of File.checksum: sha.update on every block read
RECURSIVE sha_update(_, _, _)
sha_update(bytes, pos, acc) ==
  LET read_bytes == Read(bytes, pos, BlockSize)
  IN  IF read_bytes = <<>>
        THEN acc
        ELSE sha_update(bytes, pos + Len(read_bytes), acc \o read_bytes)

\* sha.digest(): SHA-256 is taken to be injective on the bytes it was fed
hashlib_sha256(bytes) == [sha256 |-> sha_update(bytes, 0, <<>>)]

\* File.checksum with a slip: the path of the file is hashed with its bytes
File_checksum_with_path(w, d, name) ==
  LET i == IndexOf(w.children[d], name)
      path == Pathable_path(d, name)
  IN  IF w.fault # NoFault \/ w.children[d][i].checksum # NoChecksum
        THEN w
        ELSE [w EXCEPT !.children[d][i].checksum = hashlib_sha256(path \o w.disk[path])]

\* the world after child.checksum was evaluated on the File called name in d
File_checksum(w, d, name) ==
  LET i == IndexOf(w.children[d], name)
      path == Pathable_path(d, name)
  IN  IF w.fault # NoFault \/ w.children[d][i].checksum # NoChecksum
        THEN w
        ELSE IF path \notin DOMAIN w.disk
          THEN [w EXCEPT !.fault = "FileNotFoundError"]
          ELSE [w EXCEPT !.children[d][i].checksum = hashlib_sha256(w.disk[path])]

----------------------------------------------------------------------------
(* Directory *)

SeqOfNames(kids, kind) ==
  LET sel == SelectSeq(kids, LAMBDA x : x.type = kind)
  IN  [i \in DOMAIN sel |-> sel[i].name]

\* Directory.file_children and Directory.directory_children (names, in order)
file_children(kids) == SeqOfNames(kids, "file")
directory_children(kids) == SeqOfNames(kids, "directory")

\* Directory.prune_child
prune_child(kids, child) == SelectSeq(kids, LAMBDA x : x.name # child.name)

\* replace_child with a slip: the file of the replaced child is removed at once
replace_child_unlink(w, d, child, replacement) ==
  [w EXCEPT !.children[d] = Append(prune_child(@, child), FileLink(child, replacement)),
            !.disk = os_remove(@, Pathable_path(d, child.name)),
            !.written = @ \cup {Pathable_path(d, child.name)}]

\* replace_child with a slip: the child is pruned and no link is appended
replace_child_prune_only(w, d, child, replacement) ==
  [w EXCEPT !.children[d] = prune_child(@, child)]

\* replace_child with a slip: the link is put where the child was
replace_child_in_place(w, d, child, replacement) ==
  [w EXCEPT !.children[d] =
     [i \in DOMAIN @ |-> IF @[i].name = child.name THEN FileLink(child, replacement)
                                                  ELSE @[i]]]

\* Directory.replace_child of the child of d by a link to replacement
replace_child(w, d, child, replacement) ==
  LET pruned == [w EXCEPT !.children[d] = prune_child(@, child)]
  IN  IF ~FileLink_assert(child, replacement)
        THEN [pruned EXCEPT !.fault = "AssertionError"]
        ELSE [pruned EXCEPT !.children[d] = Append(@, FileLink(child, replacement))]

\* one iteration of the loop over self.file_children in prune_children
prune_file(w, d, name) ==
  LET w1 == File_checksum(w, d, name)
      child == w1.children[d][IndexOf(w1.children[d], name)]
  IN  IF w1.fault # NoFault
        THEN w1
        ELSE IF child.checksum \in DOMAIN w1.checksum_values
          THEN replace_child(w1, d, child, w1.checksum_values[child.checksum])
          ELSE [w1 EXCEPT !.checksum_values =
                  @ @@ (child.checksum :>
                          [path |-> Pathable_path(d, name), checksum |-> child.checksum])]

RECURSIVE prune_files(_, _, _)
prune_files(w, d, names) ==
  IF names = <<>> \/ w.fault # NoFault
    THEN w
    ELSE prune_files(prune_file(w, d, Head(names)), d, Tail(names))

\* Directory.prune_children, with checksum_values the dict of the world
RECURSIVE prune_children(_, _)
RECURSIVE prune_dirs(_, _, _)

\* the descent with a slip: every subdirectory starts from an empty dict
RECURSIVE prune_dirs_own_registry(_, _, _)
prune_dirs_own_registry(w, d, names) ==
  IF names = <<>> \/ w.fault # NoFault
    THEN w
    ELSE prune_dirs_own_registry(
           prune_children([w EXCEPT !.checksum_values = <<>>], Pathable_path(d, Head(names))),
           d, Tail(names))

\* prune_children with a slip: the subdirectories are taken before the files
prune_children_dirs_first(w, d) ==
  LET w1 == prune_dirs(w, d, directory_children(w.children[d]))
  IN  prune_files(w1, d, file_children(w1.children[d]))

prune_dirs(w, d, names) ==
  IF names = <<>> \/ w.fault # NoFault
    THEN w
    ELSE prune_dirs(prune_children(w, Pathable_path(d, Head(names))), d, Tail(names))

prune_children(w, d) ==
  LET w1 == prune_files(w, d, file_children(w.children[d]))
  IN  prune_dirs(w1, d, directory_children(w1.children[d]))

----------------------------------------------------------------------------
(* apply_changes and restore *)

\* apply_changes on a FileLink with a slip: the whole file is read and compared
apply_link_whole_file(w, path) ==
  IF w.disk[path] # SIGNATURE
    THEN [w EXCEPT !.disk = write(open_wb(os_remove(@, path), path), path, SIGNATURE),
                   !.written = @ \cup {path}]
    ELSE w

\* apply_changes on a FileLink with a slip: the marker is written unchecked
apply_link_unconditional(w, path) ==
  [w EXCEPT !.disk = write(open_wb(os_remove(@, path), path), path, SIGNATURE),
            !.written = @ \cup {path}]

\* apply_changes on one FileLink child
apply_link(w, path) ==
  IF path \notin DOMAIN w.disk
    THEN [w EXCEPT !.fault = "FileNotFoundError"]
    ELSE LET signature == Read(w.disk[path], 0, Len(SIGNATURE))
         IN  IF signature # SIGNATURE
               THEN [w EXCEPT !.disk = write(open_wb(os_remove(@, path), path), path, SIGNATURE),
                              !.written = @ \cup {path}]
               ELSE w

RECURSIVE apply_changes(_, _)
RECURSIVE apply_loop(_, _, _)

\* the loop of apply_changes with a slip: File children are treated as links
RECURSIVE apply_loop_every_leaf(_, _, _)
apply_loop_every_leaf(w, d, kids) ==
  IF kids = <<>> \/ w.fault # NoFault
    THEN w
    ELSE LET child == Head(kids)
             path == Pathable_path(d, child.name)
             w1 == IF child.type = "directory" THEN apply_changes(w, path)
                   ELSE apply_link(w, path)
         IN  apply_loop_every_leaf(w1, d, Tail(kids))

apply_loop(w, d, kids) ==
  IF kids = <<>> \/ w.fault # NoFault
    THEN w
    ELSE LET child == Head(kids)
             path == Pathable_path(d, child.name)
             w1 == IF child.type = "file link" THEN apply_link(w, path)
                   ELSE IF child.type = "file" THEN w
                   ELSE IF child.type = "directory" THEN apply_changes(w, path)
                   ELSE [w EXCEPT !.fault = "NotImplementedError"]
         IN  apply_loop(w1, d, Tail(kids))

\* Directory.apply_changes
apply_changes(w, d) == apply_loop(w, d, w.children[d])

\* the copy of restore with a slip: one block is copied, without the loop
copy_blocks_one_block(disk, left, right, pos) ==
  write(disk, left, Read(disk[right], pos, BlockSize))

\* the copy loop of restore: blocks of right are written to left
RECURSIVE copy_blocks(_, _, _, _)
copy_blocks(disk, left, right, pos) ==
  LET data == Read(disk[right], pos, BlockSize)
  IN  IF data = <<>>
        THEN disk
        ELSE copy_blocks(write(disk, left, data), left, right, pos + Len(data))

\* restore on one FileLink child
restore_link(w, path, replacement) ==
  LET opened == [w EXCEPT !.disk = open_wb(@, path), !.written = @ \cup {path}]
  IN  IF replacement \notin DOMAIN opened.disk
        THEN [opened EXCEPT !.fault = "FileNotFoundError"]
        ELSE [opened EXCEPT !.disk = copy_blocks(@, path, replacement, 0)]

RECURSIVE restore_links(_, _, _)
restore_links(w, d, kids) ==
  IF kids = <<>> \/ w.fault # NoFault
    THEN w
    ELSE restore_links(
           restore_link(w, Pathable_path(d, Head(kids).name), Head(kids).replacement),
           d, Tail(kids))

\* Directory.restore
RECURSIVE restore(_, _)
RECURSIVE restore_dirs(_, _, _)

\* the descent of restore with a slip: no subdirectory is restored
restore_dirs_none(w, d, names) == w

restore_dirs(w, d, names) ==
  IF names = <<>> \/ w.fault # NoFault
    THEN w
    ELSE restore_dirs(restore(w, Pathable_path(d, Head(names))), d, Tail(names))

restore(w, d) ==
  LET w1 == restore_links(w, d, SelectSeq(w.children[d], LAMBDA x : x.type = "file link"))
  IN  restore_dirs(w1, d, directory_children(w.children[d]))

----------------------------------------------------------------------------
(* index_directory and asdict *)

\* Path.is_file and Path.is_dir follow symbolic links: a link to a regular
\* file is a file, a link to nothing is neither (no link of the model points
\* to a directory)
is_file(disk, path) ==
  \/ path \in DOMAIN disk
  \/ /\ path \in DOMAIN special
     /\ special[path].kind = "symlink"
     /\ special[path].target \in DOMAIN disk
is_dir(path) == path \in Dirs

\* root.iterdir(): the entries of a directory, in the order the file system
\* returns them (by name, or by name backwards when rev)
iterdir(disk, d, rev) ==
  LET byName == SelectSeq(FileNames \o SpecialNames \o DirNames,
                          LAMBDA n : \/ Pathable_path(d, n) \in DOMAIN disk
                                     \/ Pathable_path(d, n) \in DOMAIN special
                                     \/ is_dir(Pathable_path(d, n)))
  IN  IF rev THEN Reverse(byName) ELSE byName

\* index_directory: the child list of every directory under the root
index_directory(disk, rev) ==
  [d \in Dirs |->
     LET entries == iterdir(disk, d, rev)
     IN  [i \in DOMAIN entries |->
            IF is_file(disk, Pathable_path(d, entries[i]))
              THEN File(entries[i])
              ELSE Directory(entries[i])]]

\* the else branch of index_directory: an entry that is neither raises
index_raises(disk) ==
  \E d \in Dirs :
    \E i \in DOMAIN iterdir(disk, d, FALSE) :
      LET path == Pathable_path(d, iterdir(disk, d, FALSE)[i])
      IN  ~is_file(disk, path) /\ ~is_dir(path)

\* Directory.asdict: evaluates the checksum of every File node of the subtree
RECURSIVE asdict(_, _)
RECURSIVE asdict_loop(_, _, _)
asdict_loop(w, d, kids) ==
  IF kids = <<>> \/ w.fault # NoFault
    THEN w
    ELSE LET child == Head(kids)
             w1 == IF child.type = "file" THEN File_checksum(w, d, child.name)
                   ELSE IF child.type = "directory"
                     THEN asdict(w, Pathable_path(d, child.name))
                     ELSE w
         IN  asdict_loop(w1, d, Tail(kids))

asdict(w, d) == asdict_loop(w, d, w.children[d])

----------------------------------------------------------------------------
(* The state machine *)

\* the world a call starts in
World == [children |-> children, checksum_values |-> checksum_values,
          disk |-> tgtdir, written |-> {}, fault |-> fault]

\* the directory trees the program is run on: up to MaxFiles files, the
\* i-th of them called FileNames[i], in any directories and with any contents
\* of Data (files are numbered in the order of their directories, which
\* loses no tree up to the names of the files)
Trees ==
  UNION { { [place |-> pl, data |-> da] :
              pl \in { f \in [1..n -> DOMAIN DirList] :
                         \A i \in 1..n, j \in 1..n : i < j => f[i] <= f[j] },
              da \in [1..n -> Data] } : n \in 1..MaxFiles }

DiskOf(t) ==
  LET pathOf(i) == Pathable_path(DirList[t.place[i]], FileNames[i])
  IN  [p \in {pathOf(i) : i \in DOMAIN t.place} |->
         t.data[CHOOSE i \in DOMAIN t.place : pathOf(i) = p]]

\* test_meta_compactor: tgtdir is a fresh copy of dirname
Init ==
  /\ \E t \in Trees : dirname = DiskOf(t) /\ tgtdir = DiskOf(t)
  /\ special = <<>>
  /\ children = NoTree
  /\ checksum_values = <<>>
  /\ written = {}
  /\ fault = NoFault
  /\ lastOp = "copytree"
  /\ prevOp = "rmtree"
  /\ nPrune = 0
  /\ pc = Idle

Running == children # NoTree /\ fault = NoFault

Called(op) == lastOp' = op /\ prevOp' = lastOp

Commit(w) ==
  /\ children' = w.children
  /\ checksum_values' = w.checksum_values
  /\ tgtdir' = w.disk
  /\ written' = w.written
  /\ fault' = w.fault

\* tree = index_directory(pathlib.Path(tgtdir))
Index ==
  /\ children = NoTree /\ fault = NoFault
  /\ IF index_raises(tgtdir)
       THEN children' = NoTree /\ fault' = "NotImplementedError"
       ELSE /\ \E rev \in BOOLEAN : children' = index_directory(tgtdir, rev)
            /\ fault' = fault
  /\ Called("index")
  /\ written' = {}
  /\ UNCHANGED <<dirname, tgtdir, special, checksum_values, nPrune, pc>>

\* tree.asdict()
AsDict ==
  /\ Running
  /\ asdict(World, Root).children # children
  /\ Commit(asdict(World, Root))
  /\ UNCHANGED <<dirname, special, lastOp, prevOp, nPrune, pc>>

\* tree.prune_children()
Prune ==
  /\ Running
  /\ nPrune < MaxPrune
  /\ Commit(prune_children(World, Root))
  /\ Called("prune")
  /\ nPrune' = nPrune + 1
  /\ UNCHANGED <<dirname, special, pc>>

\* tree.apply_changes()
Apply ==
  /\ Running
  /\ Commit(apply_changes(World, Root))
  /\ Called("apply")
  /\ UNCHANGED <<dirname, special, nPrune, pc>>

\* tree.restore()
Restore ==
  /\ Running
  /\ Commit(restore(World, Root))
  /\ Called("restore")
  /\ UNCHANGED <<dirname, special, nPrune, pc>>

Next == Index \/ AsDict \/ Prune \/ Apply \/ Restore

Spec == Init /\ [][Next]_vars

----------------------------------------------------------------------------
(* index_directory on a directory that holds one entry which is no regular *)
(* file: a fifo, or a symbolic link to f1.bin of the root or to nothing    *)

SpecialEntries ==
  { [kind |-> "fifo", target |-> NoPath],
    [kind |-> "symlink", target |-> Pathable_path(Root, FileNames[1])],
    [kind |-> "symlink", target |-> Pathable_path(Root, "nothing")] }

InitIndex ==
  /\ \E t \in Trees : dirname = DiskOf(t) /\ tgtdir = DiskOf(t)
  /\ \/ special = <<>>
     \/ \E d \in Dirs, e \in SpecialEntries :
          special = (Pathable_path(d, SpecialNames[1]) :> e)
  /\ children = NoTree
  /\ checksum_values = <<>>
  /\ written = {}
  /\ fault = NoFault
  /\ lastOp = "copytree"
  /\ prevOp = "rmtree"
  /\ nPrune = 0
  /\ pc = Idle

SpecIndex == InitIndex /\ [][Index]_vars

----------------------------------------------------------------------------
(* test_meta_compactor: index, prune_children, apply_changes and restore,  *)
(* each called once and in this order on a fresh copy                      *)

TestPrune == lastOp = "index" /\ Prune
TestApply == lastOp = "prune" /\ Apply
TestRestore == lastOp = "apply" /\ Restore

NextTest == Index \/ AsDict \/ TestPrune \/ TestApply \/ TestRestore

SpecTest == Init /\ [][NextTest]_vars

----------------------------------------------------------------------------
(* apply_changes and restore statement by statement: the calls of os.remove, *)
(* open and write are steps of their own, and the process can be terminated  *)
(* between any two of them                                                   *)

\* the FileLink children in the order apply_changes comes to them
RECURSIVE apply_order(_, _)
RECURSIVE apply_order_loop(_, _, _)
apply_order_loop(tree, d, kids) ==
  IF kids = <<>>
    THEN <<>>
    ELSE LET child == Head(kids)
             path == Pathable_path(d, child.name)
             own == IF child.type = "file link"
                      THEN << [path |-> path, replacement |-> child.replacement] >>
                    ELSE IF child.type = "directory" THEN apply_order(tree, path)
                    ELSE <<>>
         IN  own \o apply_order_loop(tree, d, Tail(kids))

apply_order(tree, d) == apply_order_loop(tree, d, tree[d])

\* the FileLink children in the order restore comes to them
RECURSIVE restore_order(_, _)
RECURSIVE restore_order_dirs(_, _, _)
restore_order_dirs(tree, d, names) ==
  IF names = <<>>
    THEN <<>>
    ELSE restore_order(tree, Pathable_path(d, Head(names)))
           \o restore_order_dirs(tree, d, Tail(names))

restore_order(tree, d) ==
  LET links == SelectSeq(tree[d], LAMBDA x : x.type = "file link")
  IN  [i \in DOMAIN links |->
         [path |-> Pathable_path(d, links[i].name), replacement |-> links[i].replacement]]
        \o restore_order_dirs(tree, d, directory_children(tree[d]))

AtIdle == pc.phase = "idle"

\* tree.apply_changes() is called
ApplyCall ==
  /\ Running /\ AtIdle
  /\ pc' = [pc EXCEPT !.phase = "apply", !.todo = apply_order(children, Root),
                      !.result = apply_changes(World, Root).disk]
  /\ written' = {}
  /\ Called("apply")
  /\ UNCHANGED <<dirname, tgtdir, special, children, checksum_values, fault, nPrune>>

\* the head of the loop body: the prefix is read and, if it is not the marker,
\* os.remove(child.path)
ApplyRemove ==
  /\ pc.phase = "apply" /\ pc.todo # <<>>
  /\ LET path == Head(pc.todo).path
     IN  IF path \notin DOMAIN tgtdir
           THEN /\ fault' = "FileNotFoundError"
                /\ pc' = [pc EXCEPT !.phase = "idle"]
                /\ UNCHANGED <<tgtdir, written>>
           ELSE IF Read(tgtdir[path], 0, Len(SIGNATURE)) # SIGNATURE
             THEN /\ tgtdir' = os_remove(tgtdir, path)
                  /\ written' = written \cup {path}
                  /\ pc' = [pc EXCEPT !.phase = "removed", !.gone = @ \cup {path}]
                  /\ fault' = fault
             ELSE /\ pc' = [pc EXCEPT !.todo = Tail(@)]
                  /\ UNCHANGED <<tgtdir, written, fault>>
  /\ UNCHANGED <<dirname, special, children, checksum_values, lastOp, prevOp, nPrune>>

\* with open(child.path, "wb") as replacement
ApplyOpen ==
  /\ pc.phase = "removed"
  /\ tgtdir' = open_wb(tgtdir, Head(pc.todo).path)
  /\ pc' = [pc EXCEPT !.phase = "opened"]
  /\ UNCHANGED <<dirname, special, children, checksum_values, written, fault, lastOp,
                 prevOp, nPrune>>

\* replacement.write(__SIGNATURE__)
ApplyWrite ==
  /\ pc.phase = "opened"
  /\ tgtdir' = write(tgtdir, Head(pc.todo).path, SIGNATURE)
  /\ pc' = [pc EXCEPT !.phase = "apply", !.todo = Tail(@)]
  /\ UNCHANGED <<dirname, special, children, checksum_values, written, fault, lastOp,
                 prevOp, nPrune>>

\* tree.restore() is called
RestoreCall ==
  /\ Running /\ AtIdle
  /\ pc' = [pc EXCEPT !.phase = "restore", !.todo = restore_order(children, Root),
                      !.result = restore(World, Root).disk]
  /\ written' = {}
  /\ Called("restore")
  /\ UNCHANGED <<dirname, tgtdir, special, children, checksum_values, fault, nPrune>>

\* with open(link.path, "wb") as left, open(link.replacement, "rb") as right
RestoreOpen ==
  /\ pc.phase = "restore" /\ pc.todo # <<>>
  /\ tgtdir' = open_wb(tgtdir, Head(pc.todo).path)
  /\ written' = written \cup {Head(pc.todo).path}
  /\ IF Head(pc.todo).replacement \notin DOMAIN tgtdir'
       THEN fault' = "FileNotFoundError" /\ pc' = [pc EXCEPT !.phase = "idle"]
       ELSE fault' = fault /\ pc' = [pc EXCEPT !.phase = "copying", !.pos = 0]
  /\ UNCHANGED <<dirname, special, children, checksum_values, lastOp, prevOp, nPrune>>

\* one round of the copy loop: data = right.read(4096), left.write(data)
RestoreCopy ==
  /\ pc.phase = "copying"
  /\ LET data == Read(tgtdir[Head(pc.todo).replacement], pc.pos, BlockSize)
     IN  IF data = <<>>
           THEN /\ pc' = [pc EXCEPT !.phase = "restore", !.todo = Tail(@), !.pos = 0]
                /\ tgtdir' = tgtdir
           ELSE /\ tgtdir' = write(tgtdir, Head(pc.todo).path, data)
                /\ pc' = [pc EXCEPT !.pos = @ + Len(data)]
  /\ UNCHANGED <<dirname, special, children, checksum_values, written, fault, lastOp,
                 prevOp, nPrune>>

\* the call returns
Return ==
  /\ pc.phase \in {"apply", "restore"} /\ pc.todo = <<>>
  /\ pc' = [pc EXCEPT !.phase = "idle", !.result = <<>>]
  /\ UNCHANGED <<dirname, tgtdir, special, children, checksum_values, written, fault,
                 lastOp, prevOp, nPrune>>

\* the process is terminated while a call is running
Terminate ==
  /\ pc.phase \notin {"idle", "terminated"}
  /\ pc' = [pc EXCEPT !.phase = "terminated", !.at = pc.phase]
  /\ UNCHANGED <<dirname, tgtdir, special, children, checksum_values, written, fault,
                 lastOp, prevOp, nPrune>>

\* the tree is indexed and pruned once, as in test_meta_compactor
StepIndex == AtIdle /\ Index
StepPrune == AtIdle /\ TestPrune

NextSteps ==
  \/ StepIndex \/ StepPrune
  \/ ApplyCall \/ ApplyRemove \/ ApplyOpen \/ ApplyWrite
  \/ RestoreCall \/ RestoreOpen \/ RestoreCopy
  \/ Return \/ Terminate

SpecSteps == Init /\ [][NextSteps]_vars

----------------------------------------------------------------------------
(* Vocabulary of the properties *)

Indexed == children # NoTree

\* the nodes of a kind in a tree, each with the directory that holds it
NodesOf(kids, kind) ==
  UNION { { [dir |-> d, node |-> kids[d][i]] :
              i \in {j \in DOMAIN kids[d] : kids[d][j].type = kind} } : d \in Dirs }

Files(kids) == NodesOf(kids, "file")
Links(kids) == NodesOf(kids, "file link")

PathOf(n) == Pathable_path(n.dir, n.node.name)

\* the kind of the node a tree has at a path ("none" if it has none there)
KindAt(kids, path) ==
  LET hit == {n \in NodesOf(kids, "file") \cup NodesOf(kids, "file link")
                     \cup NodesOf(kids, "directory") : PathOf(n) = path}
  IN  IF hit = {} THEN "none" ELSE (CHOOSE n \in hit : TRUE).node.type

\* the File nodes of a tree in the order of a depth-first traversal that takes
\* the files of a directory, in the order of its child list, before its
\* subdirectories
RECURSIVE Traversal(_, _)
RECURSIVE TraversalOfDirs(_, _, _)
TraversalOfDirs(kids, d, names) ==
  IF names = <<>>
    THEN <<>>
    ELSE Traversal(kids, Append(d, Head(names))) \o TraversalOfDirs(kids, d, Tail(names))

Traversal(kids, d) ==
  LET own == SelectSeq(kids[d], LAMBDA x : x.type = "file")
      sub == SelectSeq(kids[d], LAMBDA x : x.type = "directory")
  IN  [i \in DOMAIN own |-> [dir |-> d, node |-> own[i]]]
        \o TraversalOfDirs(kids, d, [i \in DOMAIN sub |-> sub[i].name])

\* the digest a File node answers with: the cached one, or that of the disk
DigestOf(n, disk) ==
  IF n.node.checksum # NoChecksum
    THEN n.node.checksum
    ELSE [sha256 |-> disk[PathOf(n)]]

\* the position of the first File node of a traversal with the digest of the i-th
FirstSeen(order, disk, i) ==
  CHOOSE j \in 1..i :
    /\ DigestOf(order[j], disk) = DigestOf(order[i], disk)
    /\ \A k \in 1..(j - 1) : DigestOf(order[k], disk) # DigestOf(order[i], disk)

----------------------------------------------------------------------------
(* The properties *)

\* C1: index, one prune, apply and restore, in this order, leave every path
\* of the working copy with the bytes it had before (those of the original
\* directory), and raise nothing.
C1_RoundTrip ==
  lastOp = "restore" => (fault = NoFault /\ tgtdir = dirname)

\* C1 is exercised: a duplicate two directories below the root, whose
\* canonical file lies in another directory, was replaced and restored.
C1_Witness ==
  /\ lastOp = "restore"
  /\ tgtdir = dirname
  /\ \E n \in Links(children) :
       /\ Len(n.dir) = 3
       /\ PathOf(n) \in written
       /\ Len(tgtdir[PathOf(n)]) > BlockSize
       /\ SubSeq(n.node.replacement, 1, Len(n.node.replacement) - 1) # n.dir

\* C2: after a prune call no two File nodes of the tree have the same
\* checksum, in whatever directories they lie.
C2_NoTwoFilesShareChecksum ==
  (Indexed /\ nPrune >= 1 /\ fault = NoFault) =>
    \A m \in Files(children), n \in Files(children) :
      /\ m.node.checksum # NoChecksum
      /\ (m # n => m.node.checksum # n.node.checksum)

\* C2 is exercised: after a prune, a file is a Link to a file of another
\* directory and two File nodes of different directories remain.
C2_Witness ==
  /\ Indexed /\ lastOp = "prune" /\ nPrune = 1
  /\ \E n \in Links(children) :
       SubSeq(n.node.replacement, 1, Len(n.node.replacement) - 1) # n.dir
  /\ \E m \in Files(children), n \in Files(children) : m.dir # n.dir

\* what C3 says of one step of the program
C3_Selection ==
  LET order == Traversal(children, Root)
      first(i) == order[FirstSeen(order, tgtdir, i)]
      top == SelectSeq(children[Root], LAMBDA x : x.type = "file")
      dg(i) == DigestOf([dir |-> Root, node |-> top[i]], tgtdir)
  IN  (Indexed /\ lastOp' = "prune" /\ fault' = NoFault) =>
        /\ \A i \in DOMAIN order :
             /\ FirstSeen(order, tgtdir, i) # i =>
                  \E l \in Links(children') :
                    /\ PathOf(l) = PathOf(order[i])
                    /\ l.node.replacement = PathOf(first(i))
             /\ \A f \in Files(children') :
                  f.node.checksum = DigestOf(order[i], tgtdir) =>
                    PathOf(f) = PathOf(first(i))
             /\ \A l \in Links(children') :
                  l.node.checksum = DigestOf(order[i], tgtdir) =>
                    l.node.replacement = PathOf(first(i))
        /\ (Len(top) = 3 /\ dg(1) = dg(2) /\ dg(2) # dg(3)) =>
             /\ KindAt(children', Pathable_path(Root, top[1].name)) = "file"
             /\ KindAt(children', Pathable_path(Root, top[3].name)) = "file"
             /\ \E l \in Links(children') :
                  /\ PathOf(l) = Pathable_path(Root, top[2].name)
                  /\ l.node.replacement = Pathable_path(Root, top[1].name)

Shape(kids) ==
  [d \in Dirs |-> [i \in DOMAIN kids[d] |-> <<kids[d][i].name, kids[d][i].type>>]]

\* what C4 says of one step of the program
C4_Reprune ==
  (Indexed /\ nPrune >= 1 /\ lastOp' = "prune") =>
    /\ Cardinality(Links(children')) = Cardinality(Links(children))
    /\ \A f \in Files(children) : KindAt(children', PathOf(f)) = "file"

\* C4: a prune call on a tree that was pruned before changes the kind of no
\* node: no Link is added and every File node stays a File node.
C4_SecondPruneIsNoOp == [][C4_Reprune]_vars

\* what C5 says of one step of the program
C5_DuplicateFree ==
  (/\ Indexed /\ lastOp' = "prune"
   /\ \A m \in Files(children), n \in Files(children) :
        m # n => DigestOf(m, tgtdir) # DigestOf(n, tgtdir)) =>
    /\ Links(children') = Links(children)
    /\ Shape(children') = Shape(children)

\* C5: a prune call on a tree in which no two File nodes have the same digest
\* creates no Link and leaves the child list of every directory as it was.
C5_NoDuplicatesNoLinks == [][C5_DuplicateFree]_vars

\* what C6 says of one step of the program
C6_PruneStep ==
  lastOp' = "prune" => (written' = {} /\ tgtdir' = tgtdir)

\* C6: a prune call removes and writes no file: the disk after it is the disk
\* before it.
C6_PruneLeavesDisk == [][C6_PruneStep]_vars

\* C6 is exercised: a prune has replaced a duplicate by a Link and the copy
\* still equals the original directory.
C6_Witness ==
  /\ Indexed /\ lastOp = "prune"
  /\ Links(children) # {}
  /\ tgtdir = dirname

\* C7 as stated: after apply the path of every Link holds the marker and
\* nothing else.
C7_LinkHoldsMarkerOnly ==
  (Indexed /\ lastOp = "apply" /\ fault = NoFault) =>
    \A l \in Links(children) : tgtdir[PathOf(l)] = SIGNATURE

\* what C7, as amended, says of one step of the program
C7_ApplyStep ==
  (Indexed /\ lastOp' = "apply" /\ fault' = NoFault) =>
    \A l \in Links(children) :
      IF Read(tgtdir[PathOf(l)], 0, Len(SIGNATURE)) = SIGNATURE
        THEN tgtdir'[PathOf(l)] = tgtdir[PathOf(l)]
        ELSE tgtdir'[PathOf(l)] = SIGNATURE

\* C7 as amended: after apply the path of every Link holds the marker and
\* nothing else, unless the file began with the marker before the apply: then
\* apply has left its content as it was.
C7_MarkerUnlessMarked == [][C7_ApplyStep]_vars

\* C7 is exercised: apply has replaced the content of a duplicate by the marker.
C7_Witness ==
  /\ Indexed /\ lastOp = "apply" /\ nPrune = 1
  /\ \E l \in Links(children) :
       /\ PathOf(l) \in written
       /\ tgtdir[PathOf(l)] = SIGNATURE
       /\ dirname[PathOf(l)] # SIGNATURE

\* what C8 says of one step of the program
C8_ApplyAfterApply ==
  (prevOp' = "apply" /\ lastOp' = "apply") => (written' = {} /\ tgtdir' = tgtdir)

\* C8: an apply that directly follows an apply removes and writes no file and
\* leaves the disk as the first apply left it.
C8_SecondApplyWritesNothing == [][C8_ApplyAfterApply]_vars

\* C8 is exercised: an apply has written nothing although the path of a Link
\* holds the marker an earlier apply wrote there.
C8_Witness ==
  /\ Indexed /\ prevOp = "apply" /\ lastOp = "apply" /\ written = {}
  /\ \E l \in Links(children) :
       /\ tgtdir[PathOf(l)] = SIGNATURE
       /\ dirname[PathOf(l)] # SIGNATURE

\* what C9 says of one step of the program
C9_Step ==
  (Indexed /\ lastOp' \in {"apply", "restore"}) =>
    /\ written' \subseteq {PathOf(l) : l \in Links(children)}
    /\ DOMAIN tgtdir' = DOMAIN tgtdir
    /\ \A f \in Files(children) : tgtdir'[PathOf(f)] = tgtdir[PathOf(f)]

\* C9: apply and restore remove and write the paths of Link nodes only; the
\* path of every File node exists after the call and holds the bytes it held
\* before it, and no path is created or deleted.
C9_OnlyLinkPathsWritten == [][C9_Step]_vars

\* C9 is exercised: a restore has written the path of a Link two directories
\* below the root while a File node lies below the root as well.
C9_Witness ==
  /\ Indexed /\ lastOp = "restore"
  /\ \E l \in Links(children) : Len(l.dir) = 3 /\ PathOf(l) \in written
  /\ \E f \in Files(children) : Len(f.dir) >= 2

\* what C10 says of one step of the program
C10_RestoreStep ==
  (Indexed /\ lastOp' = "restore") =>
    /\ fault' = NoFault
    /\ \A l \in Links(children) : tgtdir'[PathOf(l)] = tgtdir[l.node.replacement]

\* C10: a restore raises nothing and leaves at the path of every Link the
\* bytes its canonical path holds on disk when restore is called.
C10_RestoreCopiesCurrent == [][C10_RestoreStep]_vars

\* the names and kinds of the regular files and directories in a directory
RegularEntries(d) ==
  {<<FileNames[i], "file">> :
      i \in {j \in DOMAIN FileNames : Pathable_path(d, FileNames[j]) \in DOMAIN tgtdir}}
    \cup {<<DirNames[i], "directory">> :
            i \in {j \in DOMAIN DirNames : Pathable_path(d, DirNames[j]) \in Dirs}}

\* C11: index_directory gives every regular file a File node and every
\* directory a Directory node whose children are its entries; when an entry
\* of another kind (a fifo, a symbolic link) lies anywhere in the tree, it
\* raises NotImplementedError and returns no tree.
C11_IndexOrFault ==
  lastOp = "index" =>
    IF DOMAIN special # {}
      THEN fault = "NotImplementedError" /\ children = NoTree
      ELSE /\ fault = NoFault /\ Indexed
           /\ \A d \in Dirs :
                /\ {<<children[d][i].name, children[d][i].type>> : i \in DOMAIN children[d]}
                     = RegularEntries(d)
                /\ Len(children[d]) = Cardinality(RegularEntries(d))

\* what C12 says of one step of the program
C12_PruneStep ==
  (Indexed /\ lastOp' = "prune") =>
    \A l \in Links(children') \ Links(children) :
      \A c \in DOMAIN checksum_values :
        checksum_values[c].path # l.node.replacement

\* C12: every prune call starts from an empty registry: no Link it creates
\* refers to a file that an earlier prune call has registered.
C12_FreshRegistryPerPrune == [][C12_PruneStep]_vars

\* the checksum of the node a tree has at a path
ChecksumAt(kids, path) ==
  LET hit == {n \in Files(kids) \cup Links(kids) : PathOf(n) = path}
  IN  (CHOOSE n \in hit : TRUE).node.checksum

\* what C13 says of one step of the program
C13_PruneStep ==
  (Indexed /\ lastOp' = "prune") =>
    /\ fault' # "AssertionError"
    /\ \A l \in Links(children') \ Links(children) :
         /\ \E f \in Files(children) :
              /\ f.dir = l.dir /\ f.node.name = l.node.name
              /\ l.node.checksum = DigestOf(f, tgtdir)
         /\ KindAt(children', l.node.replacement) # "none"
         /\ l.node.checksum = ChecksumAt(children', l.node.replacement)

\* C13: a Link that a prune call creates has the name and the directory of
\* the File node it replaces and that node's checksum, which is the checksum of
\* the node at the canonical path it records; the assertion of FileLink holds
\* whenever it is evaluated, so that no prune call raises AssertionError.
C13_LinkKeepsIdentity == [][C13_PruneStep]_vars

\* C13 is exercised: the first prune has replaced a file by a Link to a File
\* node of another directory that has the checksum of the Link.
C13_Witness ==
  /\ Indexed /\ lastOp = "prune" /\ nPrune = 1 /\ fault = NoFault
  /\ \E l \in Links(children), f \in Files(children) :
       /\ PathOf(f) = l.node.replacement
       /\ f.dir # l.dir
       /\ f.node.checksum = l.node.checksum
       /\ l.node.checksum = [sha256 |-> dirname[PathOf(l)]]

\* the FileLink the running call is at
Current == Head(pc.todo)

\* C14: apply_changes and restore are not atomic. Between os.remove and open
\* of apply_changes the path of the FileLink does not exist, and while restore
\* copies, the path holds the bytes of the canonical file it has copied so
\* far and no more; a process terminated there leaves the file missing or cut
\* short. Left to run, the statements end with the disk of the whole call.
C14_NotAtomic ==
  /\ (pc.phase = "removed" \/ (pc.phase = "terminated" /\ pc.at = "removed")) =>
       Current.path \notin DOMAIN tgtdir
  /\ (pc.phase = "copying" \/ (pc.phase = "terminated" /\ pc.at = "copying")) =>
       /\ Current.path \in DOMAIN tgtdir
       /\ Current.path # Current.replacement =>
            /\ tgtdir[Current.path] = SubSeq(tgtdir[Current.replacement], 1, pc.pos)
            /\ pc.pos <= Len(tgtdir[Current.replacement])
  /\ (pc.phase \in {"apply", "restore"} /\ pc.todo = <<>>) => tgtdir = pc.result

\* C14 is exercised: the process was terminated while restore was copying, and
\* the path of a FileLink which had been absent between the os.remove and the
\* open of apply_changes holds some, but not all, of the bytes of its canonical
\* file.
C14_Witness ==
  /\ pc.phase = "terminated" /\ pc.at = "copying"
  /\ Current.path \in pc.gone
  /\ tgtdir[Current.path] # <<>>
  /\ Len(tgtdir[Current.path]) < Len(tgtdir[Current.replacement])
  /\ tgtdir[Current.replacement] = dirname[Current.path]

\* what C15 says of one step of the program
C15_Step ==
  Indexed =>
    /\ \A d \in Dirs : \A i \in DOMAIN children[d], j \in DOMAIN children'[d] :
         LET f == children[d][i]
             g == children'[d][j]
         IN  (f.type = "file" /\ g.type = "file" /\ g.name = f.name) =>
               IF f.checksum = NoChecksum
                 THEN g.checksum \in {NoChecksum,
                                      hashlib_sha256(tgtdir[Pathable_path(d, f.name)])}
                 ELSE /\ g.checksum = f.checksum
                      /\ File_checksum(World, d, f.name) = World
    /\ \A f \in Files(children'), g \in Files(children') :
         (/\ f.node.checksum # NoChecksum /\ g.node.checksum # NoChecksum
          /\ tgtdir'[PathOf(f)] = tgtdir'[PathOf(g)]) =>
           f.node.checksum = g.node.checksum

\* C15: the checksum of a File node is computed from the bytes on disk when it
\* is first asked for; from then on the node answers with that digest and
\* reads nothing, whatever apply_changes and restore have done to the disk.
\* Two File nodes whose files hold the same bytes, be it none, have the same
\* checksum whatever their names and directories.
C15_ChecksumStability == [][C15_Step]_vars

\* C15 is exercised: two File nodes of different names and directories whose
\* files are empty have been asked for their checksum, and a third whose file
\* is not empty has another one.
C15_Witness ==
  /\ Indexed
  /\ \E f \in Files(children), g \in Files(children), h \in Files(children) :
       /\ f.dir # g.dir /\ f.node.name # g.node.name
       /\ tgtdir[PathOf(f)] = <<>> /\ tgtdir[PathOf(g)] = <<>>
       /\ f.node.checksum # NoChecksum /\ f.node.checksum = g.node.checksum
       /\ h.node.checksum \notin {NoChecksum, f.node.checksum}

\* the names of the children of every directory, in order
Names(kids) == [d \in Dirs |-> [i \in DOMAIN kids[d] |-> kids[d][i].name]]

\* C16 as stated: a prune call leaves the names of the children of every
\* directory in the order they had.
C16_PruneKeepsOrder ==
  [][(Indexed /\ lastOp' = "prune") => Names(children') = Names(children)]_vars

\* what C16, as amended, says of one step of the program
C16_PruneStep ==
  (Indexed /\ lastOp' = "prune" /\ fault' = NoFault) =>
    \A d \in Dirs :
      LET replaced(x) == /\ x.type = "file"
                         /\ \E i \in DOMAIN children'[d] :
                              /\ children'[d][i].name = x.name
                              /\ children'[d][i].type = "file link"
          kept == SelectSeq(children[d], LAMBDA x : ~replaced(x))
          moved == SelectSeq(children[d], replaced)
      IN  /\ Names(children')[d] = [i \in DOMAIN (kept \o moved) |-> (kept \o moved)[i].name]
          /\ \A i \in DOMAIN kept : children'[d][i].type = kept[i].type
          /\ \A i \in DOMAIN moved : children'[d][Len(kept) + i].type = "file link"

\* C16 as amended: a prune call takes every File node it replaces out of the
\* child list of its directory and appends the Link to the end of that list.
\* The children that are not replaced keep their order and come first; the
\* Links follow them in the order the replaced File nodes had.
C16_LinksMoveToTheEnd == [][C16_PruneStep]_vars

\* C16 is exercised: after the first prune the Link for f2.bin stands behind
\* the File nodes f1.bin and f3.bin of its directory.
C16_Witness ==
  /\ Indexed /\ lastOp = "prune" /\ nPrune = 1
  /\ \E d \in Dirs : \E i, j, k \in DOMAIN children[d] :
       /\ i < j /\ j < k
       /\ children[d][i].name = FileNames[1] /\ children[d][i].type = "file"
       /\ children[d][j].name = FileNames[3] /\ children[d][j].type = "file"
       /\ children[d][k].name = FileNames[2] /\ children[d][k].type = "file link"

\* C17: whatever prune, apply_changes and restore calls are made on a tree,
\* the file that was the first seen with its checksum, the one prune_children
\* has registered for it, holds the bytes it had when the tree was indexed: it
\* is not overwritten with the marker and not truncated.
C17_CanonicalContentKept ==
  \A c \in DOMAIN checksum_values :
    /\ checksum_values[c].path \in DOMAIN tgtdir
    /\ tgtdir[checksum_values[c].path] = dirname[checksum_values[c].path]

\* C18: on a tree that was indexed and pruned once, every restore call, after
\* whatever apply_changes and restore calls, raises nothing and leaves every
\* path with the bytes it had when the tree was indexed; so do a restore that
\* no apply_changes went before and a restore that follows a restore.
C18_RestoreGivesIndexedContent ==
  (Indexed /\ nPrune = 1 /\ lastOp = "restore") =>
    (fault = NoFault /\ tgtdir = dirname)

\* C18 is exercised: on a tree pruned once, a restore that followed a restore
\* has written the path of a Link below the root anew, and the path holds the
\* bytes of more than one block it had when the tree was indexed.
C18_Witness ==
  /\ Indexed /\ nPrune = 1 /\ prevOp = "restore" /\ lastOp = "restore"
  /\ \E l \in Links(children) :
       /\ Len(l.dir) >= 2
       /\ PathOf(l) \in written
       /\ Len(dirname[PathOf(l)]) > BlockSize
       /\ tgtdir[PathOf(l)] = dirname[PathOf(l)]

\* the names of the children of a kind in a child list
NamesOfKind(kids, kind) == {kids[i].name : i \in {j \in DOMAIN kids : kids[j].type = kind}}

\* what C19 says of one step of the program
C19_PruneStep ==
  (Indexed /\ lastOp' = "prune") =>
    /\ fault' = NoFault
    /\ DOMAIN children' = DOMAIN children
    /\ \A d \in Dirs :
         LET old == children[d]
             new == children'[d]
         IN  /\ Len(new) = Len(old)
             /\ \A i \in DOMAIN new, j \in DOMAIN new : new[i].name = new[j].name => i = j
             /\ {new[i].name : i \in DOMAIN new} = {old[i].name : i \in DOMAIN old}
             /\ directory_children(new) = directory_children(old)
             /\ NamesOfKind(old, "file link") \subseteq NamesOfKind(new, "file link")
             /\ NamesOfKind(new, "file") \subseteq NamesOfKind(old, "file")
             /\ NamesOfKind(new, "file link") \ NamesOfKind(old, "file link")
                  = NamesOfKind(old, "file") \ NamesOfKind(new, "file")

\* C19: a prune call keeps the shape of the tree. Every directory has as many
\* children as before and the same child names, each once; a File node is
\* either left or replaced by one Link of its name in its directory; Links
\* stay; the Directory nodes of every directory are the same, in the same
\* order, and no directory is added to or taken from the tree.
C19_PruneKeepsShape == [][C19_PruneStep]_vars

\* C19 is exercised: the first prune has replaced a File node of a directory
\* that also holds a File node and a Directory node, and a File node of a
\* directory two levels below the root.
C19_Witness ==
  /\ Indexed /\ lastOp = "prune" /\ nPrune = 1
  /\ \E l \in Links(children) : Len(l.dir) = 3
  /\ \E d \in Dirs :
       /\ NamesOfKind(children[d], "file link") # {}
       /\ NamesOfKind(children[d], "file") # {}
       /\ NamesOfKind(children[d], "directory") # {}

====
